---- MODULE Spec2Model ----
(***************************************************************************)
(* cabotage/server/models/projects.py: the Project / Application / Image / *)
(* Configuration / Release tables, the before_insert listeners that        *)
(* number Images and Releases, the release candidate / current release     *)
(* diff (ready_for_deployment, create_release) and the derived             *)
(* valid / deposed status of a Release.                                    *)
(*                                                                         *)
(* Rows are records, tables are sets of rows.  A primary key (a UUID drawn *)
(* by gen_random_uuid()) is a fresh natural number; str(uuid) is its       *)
(* decimal text.  A query's .first() is the set of rows it may return.     *)
(***************************************************************************)
EXTENDS Integers, Sequences, FiniteSets, TLC

\* ---------------------------------------------------------------- bounds
MaxImages == 3             \* Image rows ever inserted (Image and Release numbering)
MaxSnapshotImages == 2     \* Image rows ever inserted (snapshots and diffs)
MaxConfigurations == 2     \* Configuration rows ever inserted
MaxReleases == 2           \* Release rows ever inserted
MaxVersionId == 2          \* highest version stamp a single writer's updates reach
MaxRevision == 3           \* highest stamp a row reaches under concurrent updates

\* ------------------------------------------------------- input alphabets
Apps == {"a1", "a2"}
Writers == {"w1", "w2"}
Repositories == {"repo"}
ConfigNames == {"DB", "PORT"}
ConfigValues == {"v1", "v2"}
InitialValues == {"v1"}
Platforms == {"wind", "steam"}
ProjectNames == {"n1", "n2"}
CaseNames == {"PORT", "port", "Port", "DB"}
RenderKeySlugs == {"app:db/password", "db/password"}
RenderProcessMaps ==
    {[web |-> [cmd |-> "serve", env |-> <<<<"PORT", "8080">>>>],
      worker |-> [cmd |-> "work", env |-> <<>>]]}
KeySlugs == {"app:db/password", "db/password", "a:b:c", ":", ""}

VARIABLES
    project,            \* the projects row: [name, revision]
    applications,       \* project_applications: app id -> [platform, version_id]
    images,             \* project_app_images rows
    configurations,     \* project_app_configurations rows
    releases,           \* project_app_releases rows
    nextImageId,        \* ids handed out so far (gen_random_uuid never repeats)
    nextConfigurationId,
    nextReleaseId,
    imagesVersion,      \* project_app_images_version: every (id, version) ever written
    releasesVersion,    \* project_app_releases_version
    pending,            \* writer -> the INSERT a flush has prepared but not sent
    loaded              \* writer -> the row its session has read and may update

vars == <<project, applications, images, configurations, releases,
          nextImageId, nextConfigurationId, nextReleaseId,
          imagesVersion, releasesVersion, pending, loaded>>

\* --------------------------------------------------------------- helpers
EmptyMapping == [k \in {} |-> k]

Digit == <<"0", "1", "2", "3", "4", "5", "6", "7", "8", "9">>

\* Python's str() of a non-negative int: its decimal text.
RECURSIVE Str(_)
Str(n) == IF n < 10 THEN Digit[n + 1] ELSE Str(n \div 10) \o Digit[(n % 10) + 1]

\* The case fold under which a CIText column compares its values.
UpperCase == "ABCDEFGHIJKLMNOPQRSTUVWXYZ"
LowerCase == "abcdefghijklmnopqrstuvwxyz"

LowerChar(ch) ==
    IF \E n \in 1 .. Len(UpperCase) : SubSeq(UpperCase, n, n) = ch
    THEN LET n == CHOOSE n \in 1 .. Len(UpperCase) : SubSeq(UpperCase, n, n) = ch
         IN  SubSeq(LowerCase, n, n)
    ELSE ch

RECURSIVE Lower(_)
Lower(text) ==
    IF text = "" THEN ""
    ELSE LowerChar(SubSeq(text, 1, 1)) \o Lower(SubSeq(text, 2, Len(text)))

\* CIText equality.
CIEqual(a, b) == Lower(a) = Lower(b)

Max(S) == CHOOSE m \in S : \A n \in S : n <= m

\* query.filter_by(id=<text>): the rows whose uuid column equals the text cast
\* to uuid, that is, whose text is the parameter.
FilterById(table, text) == {row \in table : Str(row.id) = text}

\* query.order_by(version.desc()).first(): a row of highest version, if any.
FirstByVersionDesc(rows) == {r \in rows : \A o \in rows : o.version <= r.version}

NoRow == [id |-> 0]

\* A nullable text column: NULL (None), or a text.
NullText == [null |-> TRUE, text |-> ""]
Text(t) == [null |-> FALSE, text |-> t]

\* .first() as a value: the row, or None.
First(rows) == IF rows = {} THEN NoRow ELSE CHOOSE r \in rows : TRUE

ImagesOf(app) == {i \in images : i.application_id = app}
ReleasesOf(app) == {r \in releases : r.application_id = app}
ConfigurationsOf(app) == {c \in configurations : c.application_id = app}

\* ------------------------------------------------------------ listeners
\* A listener that forgets the filter on application_id.
image_before_insert_listener_global(app) ==
    IF images = {} THEN 1 ELSE Max({i.version : i \in images}) + 1

image_before_insert_listener(app) ==
    LET most_recent_image == FirstByVersionDesc(ImagesOf(app))
    IN  IF most_recent_image = {} THEN 1
        ELSE First(most_recent_image).version + 1

\* ------------------------------------------------------ Image operations
NoProcesses == EmptyMapping
ProcessMaps == {[web |-> [cmd |-> "serve", env |-> <<>>]]}

NewImage(id, app, repo, version) ==
    [id |-> id, application_id |-> app, repository_name |-> repo,
     version |-> version, version_id |-> 1, built |-> FALSE, error |-> FALSE,
     deleted |-> FALSE, processes |-> NoProcesses]

ImageVersionRow(i) == [id |-> i.id, application_id |-> i.application_id, version |-> i.version]

\* session.add(Image(...)); session.commit() by a single writer.
InsertImage(app, repo) ==
    /\ nextImageId <= MaxImages
    /\ LET row == NewImage(nextImageId, app, repo, image_before_insert_listener(app))
       IN  /\ images' = images \cup {row}
           /\ imagesVersion' = imagesVersion \cup {ImageVersionRow(row)}
    /\ nextImageId' = nextImageId + 1
    /\ UNCHANGED <<project, applications, configurations, releases,
                   nextConfigurationId, nextReleaseId, releasesVersion,
                   pending, loaded>>

UpdateImage(old, new) ==
    /\ images' = (images \ {old}) \cup {[new EXCEPT !.version_id = old.version_id + 1]}
    /\ imagesVersion' = imagesVersion \cup {ImageVersionRow(new)}
    /\ UNCHANGED <<project, applications, configurations, releases, nextImageId,
                   nextConfigurationId, nextReleaseId, releasesVersion,
                   pending, loaded>>

\* record-build-success: built = True and the process map of the build.
RecordBuildSuccess(i, procs) ==
    /\ i \in images /\ ~i.built /\ ~i.error
    /\ UpdateImage(i, [i EXCEPT !.built = TRUE, !.processes = procs])

\* record-build-failure: error = True.
RecordBuildFailure(i) ==
    /\ i \in images /\ ~i.built /\ ~i.error
    /\ UpdateImage(i, [i EXCEPT !.error = TRUE])

\* Logical deletion: the deleted flag is set, the row stays.
SoftDeleteImage(i) ==
    /\ i \in images /\ ~i.deleted
    /\ UpdateImage(i, [i EXCEPT !.deleted = TRUE])

\* session.delete(image): the row is removed; its history rows stay.
HardDeleteImage(i) ==
    /\ i \in images
    /\ images' = images \ {i}
    /\ UNCHANGED <<project, applications, configurations, releases, nextImageId,
                   nextConfigurationId, nextReleaseId, imagesVersion, releasesVersion,
                   pending, loaded>>

\* ------------------------------------------------------ summary projections
Image_asdict(i) ==
    [id |-> Str(i.id), repository |-> i.repository_name,
     tag |-> Str(i.version), processes |-> i.processes]

Configuration_asdict(c) ==
    [id |-> Str(c.id), name |-> c.name, version_id |-> c.version_id,
     secret |-> c.secret]

\* str(self.id): an unsaved Release has id None (0 here).
Release_asdict(r) ==
    [id |-> IF r.id = 0 THEN "None" ELSE Str(r.id), application_id |-> r.application_id, platform |-> r.platform,
     image |-> r.image, configuration |-> r.configuration]

\* ------------------------------------------------------------ Diff Engine
\* dict.get(key, default)
Get(m, key, default) == IF key \in DOMAIN m THEN m[key] ELSE default

StripKeys(m, ignored_keys) == [k \in (DOMAIN m) \ ignored_keys |-> m[k]]

\* nested: whether the values of the two mappings are mappings themselves, from
\* which the ignored keys are stripped before they are compared.
DictDiffer(candidate, current, ignored_keys, nested) ==
    LET cand == StripKeys(candidate, ignored_keys)
        cur  == StripKeys(current, ignored_keys)
        both == (DOMAIN cand) \cap (DOMAIN cur)
        Norm(v) == IF nested THEN StripKeys(v, ignored_keys) ELSE v
        diff == {k \in both : Norm(cand[k]) # Norm(cur[k])}
    IN  [added |-> (DOMAIN cand) \ (DOMAIN cur),
         removed |-> (DOMAIN cur) \ (DOMAIN cand),
         changed |-> diff,
         unchanged |-> both \ diff]

\* ----------------------------------------------------------- Application
\* A query without the filter on built.
latest_image_unfiltered(app) == FirstByVersionDesc(ImagesOf(app))

\* A query that only leaves the failed Images out.
latest_image_not_failed(app) == FirstByVersionDesc({i \in ImagesOf(app) : ~i.error})

latest_image(app) == FirstByVersionDesc({i \in ImagesOf(app) : i.built})

\* A query that leaves the Releases flagged deleted out.
latest_release_not_deleted(app) ==
    FirstByVersionDesc({r \in ReleasesOf(app) : ~r.deleted})

latest_release(app) == FirstByVersionDesc(ReleasesOf(app))

\* {c.name: c.asdict for c in self.configurations}
ConfigurationSnapshot(app) ==
    [n \in {c.name : c \in ConfigurationsOf(app)} |->
        Configuration_asdict(CHOOSE c \in ConfigurationsOf(app) : c.name = n)]

release_candidate(app) ==
    Release_asdict(
        [id |-> 0, application_id |-> app,
         image |-> IF latest_image(app) # {}
                   THEN Image_asdict(First(latest_image(app))) ELSE EmptyMapping,
         configuration |-> ConfigurationSnapshot(app),
         platform |-> applications[app].platform])

\* A baseline that is the candidate itself while there is no Release.
current_release_or_candidate(app) ==
    IF latest_release(app) # {} THEN Release_asdict(First(latest_release(app)))
    ELSE release_candidate(app)

current_release(app) ==
    IF latest_release(app) # {} THEN Release_asdict(First(latest_release(app)))
    ELSE EmptyMapping

\* A comparison that ignores the id alone.
ready_for_deployment_ignoring_id(app) ==
    LET current == current_release(app)
        candidate == release_candidate(app)
    IN  [configuration_diff |->
            DictDiffer(Get(candidate, "configuration", EmptyMapping),
                       Get(current, "configuration", EmptyMapping), {"id"}, TRUE),
         image_diff |->
            DictDiffer(Get(candidate, "image", EmptyMapping),
                       Get(current, "image", EmptyMapping), {"id"}, FALSE)]

ready_for_deployment(app) ==
    LET current == current_release(app)
        candidate == release_candidate(app)
    IN  [configuration_diff |->
            DictDiffer(Get(candidate, "configuration", EmptyMapping),
                       Get(current, "configuration", EmptyMapping),
                       {"id", "version_id"}, TRUE),
         image_diff |->
            DictDiffer(Get(candidate, "image", EmptyMapping),
                       Get(current, "image", EmptyMapping),
                       {"id", "version_id"}, FALSE)]

\* A Release that takes the column default for its platform.
create_release_default_platform(app) ==
    [application_id |-> app,
     image |-> Image_asdict(First(latest_image(app))),
     configuration |-> ConfigurationSnapshot(app),
     image_changes |-> ready_for_deployment(app).image_diff,
     configuration_changes |-> ready_for_deployment(app).configuration_diff,
     platform |-> "wind"]

\* The unsaved Release create_release returns (latest_image must exist: the code
\* reads self.latest_image.asdict).
create_release(app) ==
    [application_id |-> app,
     image |-> Image_asdict(First(latest_image(app))),
     configuration |-> ConfigurationSnapshot(app),
     image_changes |-> ready_for_deployment(app).image_diff,
     configuration_changes |-> ready_for_deployment(app).configuration_diff,
     platform |-> applications[app].platform]

\* ---------------------------------------------------------------- Release
\* A listener that numbers a Release from the Images.
release_before_insert_listener_images(app) ==
    image_before_insert_listener(app)

\* A listener that forgets the filter on application_id.
release_before_insert_listener_global(app) ==
    IF releases = {} THEN 1 ELSE Max({r.version : r \in releases}) + 1

release_before_insert_listener(app) ==
    LET most_recent_release == FirstByVersionDesc(ReleasesOf(app))
    IN  IF most_recent_release = {} THEN 1
        ELSE First(most_recent_release).version + 1

\* A lookup that takes the Application's latest built Image, not the id.
image_object_latest(r) == First(latest_image(r.application_id))

image_object(r) == First(FilterById(images, r.image.id))

configuration_objects(r) ==
    [k \in DOMAIN r.configuration |->
        First(FilterById(configurations, r.configuration[k].id))]

valid(r) ==
    /\ image_object(r) # NoRow
    /\ \A k \in DOMAIN configuration_objects(r) : configuration_objects(r)[k] # NoRow

deposed(r) == ~valid(r)

\* The order in which a stored JSONB object yields its keys.
ConfigNameSeq == <<"DB", "PORT">>

ImageReason(r) == [kind |-> "Image", id |-> r.image.id, name |-> ""]
ConfigurationReason(r, k) ==
    [kind |-> "Configuration", id |-> r.configuration[k].id, name |-> k]

RECURSIVE ConfigurationReasons(_, _)
ConfigurationReasons(r, n) ==
    IF n = 0 THEN <<>>
    ELSE LET k == ConfigNameSeq[n]
             rest == ConfigurationReasons(r, n - 1)
         IN  IF /\ k \in DOMAIN r.configuration
                /\ First(FilterById(configurations, r.configuration[k].id)) = NoRow
             THEN Append(rest, ConfigurationReason(r, k))
             ELSE rest

\* A reason list that leaves the Image out.
deposed_reason_configurations_only(r) == ConfigurationReasons(r, Len(ConfigNameSeq))

deposed_reason(r) ==
    (IF image_object(r) = NoRow THEN <<ImageReason(r)>> ELSE <<>>)
        \o ConfigurationReasons(r, Len(ConfigNameSeq))

\* ------------------------------------------------- envconsul rendering
\* The outcome of a rendering: the text, or the exception it raises.
Rendered(text) == [error |-> "", text |-> text]
Raised(exception) == [error |-> exception, text |-> ""]

Colons(text) == {n \in 1 .. Len(text) : SubSeq(text, n, n) = ":"}

\* text.rsplit(':', 1): cut at the last colon.
rsplit(text) ==
    IF Colons(text) = {} THEN <<text>>
    ELSE LET n == CHOOSE n \in Colons(text) : \A m \in Colons(text) : m <= n
         IN  <<SubSeq(text, 1, n - 1), SubSeq(text, n + 1, Len(text))>>

\* text.split(':', 1): cut at the first colon, if there is one.
split(text) ==
    IF Colons(text) = {} THEN <<text>>
    ELSE LET n == CHOOSE n \in Colons(text) : \A m \in Colons(text) : n <= m
         IN  <<SubSeq(text, 1, n - 1), SubSeq(text, n + 1, Len(text))>>

envconsul_statement(c) ==
    LET directive == IF c.secret THEN "secret" ELSE "prefix"
    IN  IF c.key_slug.null THEN Raised("AttributeError")      \* None.split
        ELSE IF Len(split(c.key_slug.text)) < 2 THEN Raised("IndexError")
        ELSE Rendered(directive \o " {\n"
                      \o "  no_prefix = true\n"
                      \o "  path = \"" \o split(c.key_slug.text)[2] \o "\"\n"
                      \o "}")

\* The envconsul_statement outcomes of the snapshotted Configurations that
\* resolve, in the order the stored mapping yields them.
RECURSIVE Statements(_, _)
Statements(r, n) ==
    IF n = 0 THEN <<>>
    ELSE LET k == ConfigNameSeq[n]
             rest == Statements(r, n - 1)
         IN  IF /\ k \in DOMAIN r.configuration
                /\ configuration_objects(r)[k] # NoRow
             THEN Append(rest, envconsul_statement(configuration_objects(r)[k]))
             ELSE rest

\* separator.join(texts)
RECURSIVE Join(_, _)
Join(separator, texts) ==
    IF texts = <<>> THEN ""
    ELSE IF Len(texts) = 1 THEN texts[1]
    ELSE texts[1] \o separator \o Join(separator, Tail(texts))

\* json.dumps of a text and of a list of texts (no character needs an escape).
JsonString(text) == "\"" \o text \o "\""
JsonArray(texts) ==
    "[" \o Join(", ", [n \in 1 .. Len(texts) |-> JsonString(texts[n])]) \o "]"

exec_statement(proc) ==
    LET custom_env ==
            JsonArray([n \in 1 .. Len(proc.env) |->
                          proc.env[n][1] \o "=" \o proc.env[n][2]])
    IN  "exec {\n"
        \o "  command = " \o JsonString(proc.cmd) \o "\n"
        \o "  env = {\n"
        \o "    pristine = true\n"
        \o "    custom = " \o custom_env \o "\n"
        \o "  }\n"
        \o "}"

RenderedBlocks(blocks) == [error |-> "", blocks |-> blocks]
RaisedBlocks(exception) == [error |-> exception, blocks |-> EmptyMapping]

envconsul_configurations(r) ==
    LET outcomes == Statements(r, Len(ConfigNameSeq))
        failed == {n \in 1 .. Len(outcomes) : outcomes[n].error # ""}
    IN  IF failed # {}
        THEN RaisedBlocks(outcomes[CHOOSE n \in failed : \A m \in failed : n <= m].error)
        ELSE IF image_object(r) = NoRow
        THEN RaisedBlocks("AttributeError")               \* None.processes
        ELSE IF image_object(r).processes = NoProcesses
        THEN RaisedBlocks("AttributeError")               \* None.items
        ELSE LET environment_statements ==
                    Join("\n", [n \in 1 .. Len(outcomes) |-> outcomes[n].text])
                 processes == image_object(r).processes
             IN  RenderedBlocks(
                    [proc_name \in DOMAIN processes |->
                        Join("\n", <<exec_statement(processes[proc_name]),
                                     environment_statements>>)])

\* ----------------------------------------------- Configuration operations
\* A constraint on a name column that compares as plain text.
UniqueConstraintViolated_text(app, name) ==
    \E c \in ConfigurationsOf(app) : c.name = name

\* UniqueConstraint(application_id, name), name a CIText column: the INSERT
\* is refused (IntegrityError) when a row of the Application has that name.
UniqueConstraintViolated(app, name) ==
    \E c \in ConfigurationsOf(app) : CIEqual(c.name, name)

CreateConfiguration(app, name, value, secret) ==
    /\ nextConfigurationId <= MaxConfigurations
    /\ ~UniqueConstraintViolated(app, name)
    /\ configurations' = configurations \cup
          {[id |-> nextConfigurationId, application_id |-> app, name |-> name,
            value |-> value, key_slug |-> NullText, secret |-> secret,
            deleted |-> FALSE, version_id |-> 1]}
    /\ nextConfigurationId' = nextConfigurationId + 1
    /\ UNCHANGED <<project, applications, images, releases, nextImageId,
                   nextReleaseId, imagesVersion, releasesVersion, pending, loaded>>

UpdateConfiguration(old, new) ==
    /\ old.version_id < MaxVersionId
    /\ configurations' = (configurations \ {old}) \cup
                            {[new EXCEPT !.version_id = old.version_id + 1]}
    /\ UNCHANGED <<project, applications, images, releases, nextImageId,
                   nextConfigurationId, nextReleaseId, imagesVersion,
                   releasesVersion, pending, loaded>>

UpdateConfigurationValue(c, value) ==
    /\ c \in configurations /\ ~c.deleted /\ value # c.value
    /\ UpdateConfiguration(c, [c EXCEPT !.value = value])

UpdateConfigurationSecret(c) ==
    /\ c \in configurations /\ ~c.deleted
    /\ UpdateConfiguration(c, [c EXCEPT !.secret = ~c.secret])

\* The caller stores the key path under which it wrote the value.
SetKeySlug(c, slug) ==
    /\ c \in configurations /\ ~c.deleted /\ c.key_slug # Text(slug)
    /\ UpdateConfiguration(c, [c EXCEPT !.key_slug = Text(slug)])

SoftDeleteConfiguration(c) ==
    /\ c \in configurations /\ ~c.deleted
    /\ UpdateConfiguration(c, [c EXCEPT !.deleted = TRUE])

HardDeleteConfiguration(c) ==
    /\ c \in configurations
    /\ configurations' = configurations \ {c}
    /\ UNCHANGED <<project, applications, images, releases, nextImageId,
                   nextConfigurationId, nextReleaseId, imagesVersion,
                   releasesVersion, pending, loaded>>

\* ----------------------------------------------------- Release operations
ReleaseVersionRow(r) == [id |-> r.id, application_id |-> r.application_id, version |-> r.version]

\* release = app.create_release(); session.add(release); session.commit()
CreateRelease(app) ==
    /\ nextReleaseId <= MaxReleases
    /\ latest_image(app) # {}
    /\ LET c == create_release(app)
           row == [id |-> nextReleaseId, application_id |-> app,
                   platform |-> c.platform, image |-> c.image,
                   configuration |-> c.configuration,
                   image_changes |-> c.image_changes,
                   configuration_changes |-> c.configuration_changes,
                   version |-> release_before_insert_listener(app),
                   version_id |-> 1, built |-> FALSE, error |-> FALSE,
                   deleted |-> FALSE]
       IN  /\ releases' = releases \cup {row}
           /\ releasesVersion' = releasesVersion \cup {ReleaseVersionRow(row)}
    /\ nextReleaseId' = nextReleaseId + 1
    /\ UNCHANGED <<project, applications, images, configurations, nextImageId,
                   nextConfigurationId, imagesVersion, pending, loaded>>

UpdateRelease(old, new) ==
    /\ releases' = (releases \ {old}) \cup {[new EXCEPT !.version_id = old.version_id + 1]}
    /\ releasesVersion' = releasesVersion \cup {ReleaseVersionRow(new)}
    /\ UNCHANGED <<project, applications, images, configurations, nextImageId,
                   nextConfigurationId, nextReleaseId, imagesVersion, pending, loaded>>

\* The release build succeeded: built = True.
RecordReleaseBuilt(r) ==
    /\ r \in releases /\ ~r.built /\ ~r.error
    /\ UpdateRelease(r, [r EXCEPT !.built = TRUE])

\* The release build failed: error = True.
RecordReleaseError(r) ==
    /\ r \in releases /\ ~r.built /\ ~r.error
    /\ UpdateRelease(r, [r EXCEPT !.error = TRUE])

\* Logical deletion of a Release.
SoftDeleteRelease(r) ==
    /\ r \in releases /\ ~r.deleted
    /\ UpdateRelease(r, [r EXCEPT !.deleted = TRUE])

\* application.platform = platform; session.commit() by a single writer.
SetPlatform(app, platform) ==
    /\ platform # applications[app].platform
    /\ applications[app].version_id < MaxVersionId
    /\ applications' = [applications EXCEPT ![app] =
                           [platform |-> platform, version_id |-> @.version_id + 1]]
    /\ UNCHANGED <<project, images, configurations, releases, nextImageId,
                   nextConfigurationId, nextReleaseId, imagesVersion,
                   releasesVersion, pending, loaded>>

HardDeleteRelease(r) ==
    /\ r \in releases
    /\ releases' = releases \ {r}
    /\ UNCHANGED <<project, applications, images, configurations, nextImageId,
                   nextConfigurationId, nextReleaseId, imagesVersion,
                   releasesVersion, pending, loaded>>

\* ------------------------------------------------------------------ Spec
Idle == [kind |-> "idle"]

Init ==
    /\ project = [name |-> "n1", revision |-> 1]
    /\ applications = [a \in Apps |-> [platform |-> "wind", version_id |-> 1]]
    /\ images = {} /\ configurations = {} /\ releases = {}
    /\ nextImageId = 1 /\ nextConfigurationId = 1 /\ nextReleaseId = 1
    /\ imagesVersion = {} /\ releasesVersion = {}
    /\ pending = [w \in Writers |-> Idle]
    /\ loaded = [w \in Writers |-> Idle]

\* Image numbering by a single writer.
NextImages ==
    \/ \E app \in Apps, repo \in Repositories : InsertImage(app, repo)
    \/ \E i \in images, procs \in ProcessMaps : RecordBuildSuccess(i, procs)
    \/ \E i \in images : RecordBuildFailure(i)
    \/ \E i \in images : SoftDeleteImage(i)
    \/ \E i \in images : HardDeleteImage(i)

SpecImages == Init /\ [][NextImages]_vars

\* Release numbering by a single writer.
NextReleases ==
    \/ \E app \in Apps, repo \in Repositories : InsertImage(app, repo)
    \/ \E i \in images, procs \in ProcessMaps : RecordBuildSuccess(i, procs)
    \/ \E i \in images : RecordBuildFailure(i)
    \/ \E app \in Apps : CreateRelease(app)
    \/ \E r \in releases : HardDeleteRelease(r)

SpecReleases == Init /\ [][NextReleases]_vars

\* Releases and the rows their snapshots refer to.
NextDeposed ==
    \/ \E app \in Apps, repo \in Repositories :
          nextImageId <= MaxSnapshotImages /\ InsertImage(app, repo)
    \/ \E i \in images, procs \in ProcessMaps : RecordBuildSuccess(i, procs)
    \/ \E i \in images : SoftDeleteImage(i)
    \/ \E i \in images : HardDeleteImage(i)
    \/ \E app \in Apps, name \in ConfigNames, value \in InitialValues :
          CreateConfiguration(app, name, value, FALSE)
    \/ \E c \in configurations : SoftDeleteConfiguration(c)
    \/ \E c \in configurations : HardDeleteConfiguration(c)
    \/ \E app \in Apps : CreateRelease(app)

SpecDeposed == Init /\ [][NextDeposed]_vars

\* Configurations, Releases and the deployment diff.
Next ==
    \/ \E app \in Apps, repo \in Repositories :
          nextImageId <= MaxSnapshotImages /\ InsertImage(app, repo)
    \/ \E i \in images, procs \in ProcessMaps : RecordBuildSuccess(i, procs)
    \/ \E app \in Apps, name \in ConfigNames, value \in InitialValues, secret \in BOOLEAN :
          CreateConfiguration(app, name, value, secret)
    \/ \E c \in configurations, value \in ConfigValues : UpdateConfigurationValue(c, value)
    \/ \E c \in configurations : UpdateConfigurationSecret(c)
    \/ \E c \in configurations : SoftDeleteConfiguration(c)
    \/ \E c \in configurations : HardDeleteConfiguration(c)
    \/ \E app \in Apps : CreateRelease(app)

Spec == Init /\ [][Next]_vars

\* Configuration names that differ by letter case.
NextNames ==
    \/ \E app \in Apps, name \in CaseNames, value \in InitialValues, secret \in BOOLEAN :
          CreateConfiguration(app, name, value, secret)
    \/ \E c \in configurations : UpdateConfigurationSecret(c)
    \/ \E c \in configurations : SoftDeleteConfiguration(c)
    \/ \E c \in configurations : HardDeleteConfiguration(c)

SpecNames == Init /\ [][NextNames]_vars

\* Configurations and the key paths their callers store.
NextStatement ==
    \/ \E app \in Apps, name \in ConfigNames, value \in InitialValues, secret \in BOOLEAN :
          CreateConfiguration(app, name, value, secret)
    \/ \E c \in configurations, slug \in KeySlugs : SetKeySlug(c, slug)
    \/ \E c \in configurations : UpdateConfigurationSecret(c)

SpecStatement == Init /\ [][NextStatement]_vars

\* Releases, the rows their snapshots refer to, and their rendering.
NextRender ==
    \/ \E app \in Apps, repo \in Repositories :
          nextImageId <= MaxSnapshotImages /\ InsertImage(app, repo)
    \/ \E i \in images, procs \in RenderProcessMaps : RecordBuildSuccess(i, procs)
    \/ \E i \in images : HardDeleteImage(i)
    \/ \E app \in Apps, name \in ConfigNames, value \in InitialValues, secret \in BOOLEAN :
          CreateConfiguration(app, name, value, secret)
    \/ \E c \in configurations, slug \in RenderKeySlugs : SetKeySlug(c, slug)
    \/ \E c \in configurations : HardDeleteConfiguration(c)
    \/ \E app \in Apps : CreateRelease(app)

SpecRender == Init /\ [][NextRender]_vars

\* Releases and their status flags.
NextReady ==
    \/ \E app \in Apps, repo \in Repositories :
          nextImageId <= MaxSnapshotImages /\ InsertImage(app, repo)
    \/ \E i \in images, procs \in ProcessMaps : RecordBuildSuccess(i, procs)
    \/ \E app \in Apps, name \in ConfigNames, value \in InitialValues :
          CreateConfiguration(app, name, value, FALSE)
    \/ \E app \in Apps : CreateRelease(app)
    \/ \E r \in releases : RecordReleaseBuilt(r)
    \/ \E r \in releases : RecordReleaseError(r)
    \/ \E r \in releases : SoftDeleteRelease(r)

SpecReady == Init /\ [][NextReady]_vars

\* Releases and the platform of their Application.
NextPlatform ==
    \/ \E app \in Apps, repo \in Repositories :
          nextImageId <= MaxSnapshotImages /\ InsertImage(app, repo)
    \/ \E i \in images, procs \in ProcessMaps : RecordBuildSuccess(i, procs)
    \/ \E app \in Apps, name \in ConfigNames, value \in InitialValues :
          CreateConfiguration(app, name, value, FALSE)
    \/ \E app \in Apps : CreateRelease(app)
    \/ \E app \in Apps, platform \in Platforms : SetPlatform(app, platform)

SpecPlatform == Init /\ [][NextPlatform]_vars

\* ------------------------------------------------- concurrent INSERTs
\* Two sessions flush concurrently: each runs the before_insert listener (a
\* query that sees the committed rows), then sends its INSERT.
BeginInsertImage(w, app, repo) ==
    /\ pending[w] = Idle
    /\ nextImageId + Cardinality({v \in Writers : pending[v].kind = "image"}) <= MaxImages
    /\ pending' = [pending EXCEPT ![w] =
          [kind |-> "image", application_id |-> app, repository_name |-> repo,
           seen |-> {i.id : i \in ImagesOf(app)},     \* the rows the query read
           version |-> image_before_insert_listener(app)]]
    /\ UNCHANGED <<project, applications, images, configurations, releases,
                   nextImageId, nextConfigurationId, nextReleaseId,
                   imagesVersion, releasesVersion, loaded>>

\* An INSERT that numbers the row when it is sent.
CommitInsertImage_serialized(w) ==
    /\ pending[w].kind = "image"
    /\ LET row == NewImage(nextImageId, pending[w].application_id,
                           pending[w].repository_name,
                           image_before_insert_listener(pending[w].application_id))
       IN  /\ images' = images \cup {row}
           /\ imagesVersion' = imagesVersion \cup {ImageVersionRow(row)}
    /\ nextImageId' = nextImageId + 1
    /\ pending' = [pending EXCEPT ![w] = Idle]
    /\ UNCHANGED <<project, applications, configurations, releases,
                   nextConfigurationId, nextReleaseId, releasesVersion, loaded>>

CommitInsertImage(w) ==
    /\ pending[w].kind = "image"
    /\ LET row == NewImage(nextImageId, pending[w].application_id,
                           pending[w].repository_name, pending[w].version)
       IN  /\ images' = images \cup {row}
           /\ imagesVersion' = imagesVersion \cup {ImageVersionRow(row)}
    /\ nextImageId' = nextImageId + 1
    /\ pending' = [pending EXCEPT ![w] = Idle]
    /\ UNCHANGED <<project, applications, configurations, releases,
                   nextConfigurationId, nextReleaseId, releasesVersion, loaded>>

BeginInsertRelease(w, app) ==
    /\ pending[w] = Idle
    /\ nextReleaseId + Cardinality({v \in Writers : pending[v].kind = "release"}) <= MaxReleases
    /\ \E img \in latest_image(app) :      \* any row of highest version
          pending' = [pending EXCEPT ![w] =
             [kind |-> "release", application_id |-> app,
              release |-> [create_release(app) EXCEPT !.image = Image_asdict(img)],
              version |-> release_before_insert_listener(app)]]
    /\ UNCHANGED <<project, applications, images, configurations, releases,
                   nextImageId, nextConfigurationId, nextReleaseId,
                   imagesVersion, releasesVersion, loaded>>

CommitInsertRelease(w) ==
    /\ pending[w].kind = "release"
    /\ LET c == pending[w].release
           row == [id |-> nextReleaseId, application_id |-> c.application_id,
                   platform |-> c.platform, image |-> c.image,
                   configuration |-> c.configuration,
                   image_changes |-> c.image_changes,
                   configuration_changes |-> c.configuration_changes,
                   version |-> pending[w].version,
                   version_id |-> 1, built |-> FALSE, error |-> FALSE,
                   deleted |-> FALSE]
       IN  /\ releases' = releases \cup {row}
           /\ releasesVersion' = releasesVersion \cup {ReleaseVersionRow(row)}
    /\ nextReleaseId' = nextReleaseId + 1
    /\ pending' = [pending EXCEPT ![w] = Idle]
    /\ UNCHANGED <<project, applications, images, configurations, nextImageId,
                   nextConfigurationId, imagesVersion, loaded>>

NextRace ==
    \/ \E w \in Writers, app \in Apps, repo \in Repositories : BeginInsertImage(w, app, repo)
    \/ \E w \in Writers : CommitInsertImage(w)
    \/ \E i \in images, procs \in ProcessMaps : RecordBuildSuccess(i, procs)
    \/ \E w \in Writers, app \in Apps : BeginInsertRelease(w, app)
    \/ \E w \in Writers : CommitInsertRelease(w)

SpecRace == Init /\ [][NextRace]_vars

\* ------------------------------------------------- concurrent UPDATEs
\* A row of every table, as a single writer leaves them: a built Image, a
\* Configuration and the Release made from them.
InitOCC ==
    /\ project = [name |-> "n1", revision |-> 1]
    /\ applications = [a \in Apps |-> [platform |-> "wind", version_id |-> 1]]
    /\ images = {[NewImage(1, "a1", "repo", 1) EXCEPT
                    !.built = TRUE, !.version_id = 2,
                    !.processes = [web |-> [cmd |-> "serve", env |-> <<>>]]]}
    /\ configurations = {[id |-> 1, application_id |-> "a1", name |-> "PORT",
                          value |-> "v1", key_slug |-> NullText, secret |-> FALSE,
                          deleted |-> FALSE, version_id |-> 1]}
    /\ releases = {[id |-> 1, application_id |-> "a1", platform |-> "wind",
                    image |-> Image_asdict(First(images)),
                    configuration |-> ConfigurationSnapshot("a1"),
                    image_changes |->
                        [added |-> {"repository", "tag", "processes"}, removed |-> {},
                         changed |-> {}, unchanged |-> {}],
                    configuration_changes |->
                        [added |-> {"PORT"}, removed |-> {}, changed |-> {},
                         unchanged |-> {}],
                    version |-> 1, version_id |-> 1, built |-> FALSE,
                    error |-> FALSE, deleted |-> FALSE]}
    /\ nextImageId = 2 /\ nextConfigurationId = 2 /\ nextReleaseId = 2
    /\ imagesVersion = {[id |-> 1, application_id |-> "a1", version |-> 1]}
    /\ releasesVersion = {[id |-> 1, application_id |-> "a1", version |-> 1]}
    /\ pending = [w \in Writers |-> Idle]
    /\ loaded = [w \in Writers |-> Idle]

\* session.query(...).get(id): the session keeps the row as it read it.
LoadProject(w) ==
    /\ loaded[w] = Idle
    /\ loaded' = [loaded EXCEPT ![w] = [kind |-> "project", row |-> project]]
    /\ UNCHANGED <<project, applications, images, configurations, releases,
                   nextImageId, nextConfigurationId, nextReleaseId,
                   imagesVersion, releasesVersion, pending>>

LoadApplication(w, app) ==
    /\ loaded[w] = Idle
    /\ loaded' = [loaded EXCEPT ![w] =
          [kind |-> "application", key |-> app, row |-> applications[app]]]
    /\ UNCHANGED <<project, applications, images, configurations, releases,
                   nextImageId, nextConfigurationId, nextReleaseId,
                   imagesVersion, releasesVersion, pending>>

LoadRow(w, kind, row) ==
    /\ loaded[w] = Idle
    /\ loaded' = [loaded EXCEPT ![w] = [kind |-> kind, key |-> row.id, row |-> row]]
    /\ UNCHANGED <<project, applications, images, configurations, releases,
                   nextImageId, nextConfigurationId, nextReleaseId,
                   imagesVersion, releasesVersion, pending>>

\* Project declares no version_id column and no version_id_col: its UPDATE is
\* keyed by the primary key alone.  revision counts the row's history entries.
FlushProject(w, name) ==
    /\ loaded[w].kind = "project"
    /\ name # loaded[w].row.name
    /\ project.revision < MaxRevision
    /\ project' = [name |-> name, revision |-> project.revision + 1]
    /\ loaded' = [loaded EXCEPT ![w] = Idle]
    /\ UNCHANGED <<applications, images, configurations, releases,
                   nextImageId, nextConfigurationId, nextReleaseId,
                   imagesVersion, releasesVersion, pending>>

\* version_id_col: UPDATE ... SET version_id = :read + 1 WHERE id = :id AND
\* version_id = :read; no row matched raises StaleDataError and nothing is written.
StampMatches(stored, read) == stored.version_id = read.version_id

FlushApplication(w, platform) ==
    /\ loaded[w].kind = "application"
    /\ platform # loaded[w].row.platform
    /\ loaded[w].row.version_id < MaxRevision
    /\ LET app == loaded[w].key
       IN  applications' =
             IF StampMatches(applications[app], loaded[w].row)
             THEN [applications EXCEPT ![app] =
                     [platform |-> platform, version_id |-> @.version_id + 1]]
             ELSE applications
    /\ loaded' = [loaded EXCEPT ![w] = Idle]
    /\ UNCHANGED <<project, images, configurations, releases,
                   nextImageId, nextConfigurationId, nextReleaseId,
                   imagesVersion, releasesVersion, pending>>

\* The table after the session's UPDATE of the row it read.
Flushed(table, read, new) ==
    LET stored == {r \in table : r.id = read.id}
    IN  IF stored # {} /\ StampMatches(First(stored), read)
        THEN (table \ stored) \cup {[new EXCEPT !.version_id = read.version_id + 1]}
        ELSE table

FlushImage(w) ==
    /\ loaded[w].kind = "image"
    /\ ~loaded[w].row.deleted
    /\ loaded[w].row.version_id < MaxRevision
    /\ images' = Flushed(images, loaded[w].row, [loaded[w].row EXCEPT !.deleted = TRUE])
    /\ loaded' = [loaded EXCEPT ![w] = Idle]
    /\ UNCHANGED <<project, applications, configurations, releases,
                   nextImageId, nextConfigurationId, nextReleaseId,
                   imagesVersion, releasesVersion, pending>>

FlushConfiguration(w, value) ==
    /\ loaded[w].kind = "configuration"
    /\ value # loaded[w].row.value
    /\ loaded[w].row.version_id < MaxRevision
    /\ configurations' = Flushed(configurations, loaded[w].row,
                                 [loaded[w].row EXCEPT !.value = value])
    /\ loaded' = [loaded EXCEPT ![w] = Idle]
    /\ UNCHANGED <<project, applications, images, releases,
                   nextImageId, nextConfigurationId, nextReleaseId,
                   imagesVersion, releasesVersion, pending>>

FlushRelease(w) ==
    /\ loaded[w].kind = "release"
    /\ ~loaded[w].row.built
    /\ loaded[w].row.version_id < MaxRevision
    /\ releases' = Flushed(releases, loaded[w].row, [loaded[w].row EXCEPT !.built = TRUE])
    /\ loaded' = [loaded EXCEPT ![w] = Idle]
    /\ UNCHANGED <<project, applications, images, configurations,
                   nextImageId, nextConfigurationId, nextReleaseId,
                   imagesVersion, releasesVersion, pending>>

NextOCC ==
    \/ \E w \in Writers : LoadProject(w)
    \/ \E w \in Writers, app \in Apps : LoadApplication(w, app)
    \/ \E w \in Writers, i \in images : LoadRow(w, "image", i)
    \/ \E w \in Writers, c \in configurations : LoadRow(w, "configuration", c)
    \/ \E w \in Writers, r \in releases : LoadRow(w, "release", r)
    \/ \E w \in Writers, name \in ProjectNames : FlushProject(w, name)
    \/ \E w \in Writers, platform \in Platforms : FlushApplication(w, platform)
    \/ \E w \in Writers : FlushImage(w)
    \/ \E w \in Writers, value \in ConfigValues : FlushConfiguration(w, value)
    \/ \E w \in Writers : FlushRelease(w)

SpecOCC == InitOCC /\ [][NextOCC]_vars

\* InitOCC is a state the single-writer operations reach.
InitOCCNotReached ==
    ~(/\ images = {[NewImage(1, "a1", "repo", 1) EXCEPT
                      !.built = TRUE, !.version_id = 2,
                      !.processes = [web |-> [cmd |-> "serve", env |-> <<>>]]]}
      /\ Cardinality(configurations) = 1 /\ Cardinality(releases) = 1
      /\ \E r \in releases :
            /\ r.configuration_changes.added = {"PORT"}
            /\ r.image_changes.added = {"repository", "tag", "processes"}
            /\ r.image_changes.changed = {} /\ r.version = 1
            /\ r.configuration = ConfigurationSnapshot("a1")
            /\ r.image = Image_asdict(First(images))
      /\ \E c \in configurations : c.id = 1 /\ c.name = "PORT" /\ c.version_id = 1
                                     /\ c.value = "v1" /\ ~c.secret /\ ~c.deleted
      /\ nextImageId = 2 /\ nextConfigurationId = 2 /\ nextReleaseId = 2
      /\ imagesVersion = {[id |-> 1, application_id |-> "a1", version |-> 1]}
      /\ releasesVersion = {[id |-> 1, application_id |-> "a1", version |-> 1]})

\* ======================================================== the claims
\* No Image of the application was ever removed: every id its history knows
\* is still a row.
NoImageRemoved(app) ==
    {h.id : h \in {x \in imagesVersion : x.application_id = app}}
        = {i.id : i \in ImagesOf(app)}

NoReleaseRemoved(app) ==
    {h.id : h \in {x \in releasesVersion : x.application_id = app}}
        = {r.id : r \in ReleasesOf(app)}

\* C1: N Images inserted one after another into an Application, none removed,
\* carry the versions 1..N: the k-th inserted has version k, so there is no
\* gap and no duplicate.
C1_SequentialImageVersions ==
    \A app \in Apps :
        NoImageRemoved(app) =>
            LET rows == ImagesOf(app)
            IN  /\ {i.version : i \in rows} = 1 .. Cardinality(rows)
                /\ \A i \in rows :
                      i.version = 1 + Cardinality({j \in rows : j.id < i.id})

C1_Witness ==
    \E app \in Apps :
        /\ NoImageRemoved(app)
        /\ Cardinality(ImagesOf(app)) >= 2
        /\ \E other \in Apps \ {app} : ImagesOf(other) # {}

\* C2: an Image version is never renumbered (an id has one version in its whole
\* history) and never reused (two ids of one Application never have the same
\* version), whatever was created, updated or deleted.
C2_NeverReusedNeverRenumbered ==
    \A h1, h2 \in imagesVersion :
        /\ h1.id = h2.id => h1.version = h2.version
        /\ (h1.id # h2.id /\ h1.application_id = h2.application_id)
              => h1.version # h2.version

\* C3: when a writer sends its Image INSERT while another writer has already
\* run the listener for the same Application on the same rows (both read the
\* highest version before either inserted), the row is stored, unchecked, with
\* the version its own listener read, which is the very version the other
\* writer is about to store: both rows end with the same version.
C3_InterleavedInsertsShareVersion ==
    [][\A w \in Writers :
          (pending[w].kind = "image" /\ pending'[w] = Idle) =>
             \E row \in images' \ images :
                /\ row.application_id = pending[w].application_id
                /\ row.version_id = 1
                /\ row.version = pending[w].version
                /\ \A v \in Writers \ {w} :
                      (/\ pending[v].kind = "image"
                       /\ pending[v].application_id = row.application_id
                       /\ pending[v].seen = pending[w].seen)
                          => row.version = pending[v].version]_vars

C3_Witness ==
    \E i, j \in images :
        /\ i.id # j.id
        /\ i.application_id = j.application_id
        /\ i.version = j.version
        /\ i.version_id = 1 /\ j.version_id = 1

\* The stamp of the stored row a session has read, and the stamp it read.
StoredStamp(l) ==
    CASE l.kind = "project" -> project.revision
      [] l.kind = "application" -> applications[l.key].version_id
      [] l.kind = "image" -> First({r \in images : r.id = l.key}).version_id
      [] l.kind = "configuration" -> First({r \in configurations : r.id = l.key}).version_id
      [] l.kind = "release" -> First({r \in releases : r.id = l.key}).version_id

ReadStamp(l) == IF l.kind = "project" THEN l.row.revision ELSE l.row.version_id

\* C4: for every entity type, an update issued from a read that is no longer
\* current (the stored row was updated since) writes nothing.
C4_StaleUpdateAborted ==
    [][\A w \in Writers :
          (/\ loaded[w] # Idle /\ loaded'[w] = Idle
           /\ StoredStamp(loaded[w]) # ReadStamp(loaded[w]))
             => UNCHANGED <<project, applications, images, configurations, releases>>]_vars

\* A reference resolves when a row with that id exists; it is live when that
\* row is not flagged deleted either.
Resolves(table, text) == \E row \in table : Str(row.id) = text
Live(table, text) == \E row \in table : Str(row.id) = text /\ ~row.deleted

\* C5: a Release is deposed as soon as the Image or a Configuration of its
\* snapshot is deleted (its row removed, or flagged deleted), and it is valid
\* as long as every one of them is there and not deleted.
C5_DeposedExactlyWhenDeleted ==
    [][\A r \in releases \cap releases' :
          LET deletedNow ==
                \/ Live(images, r.image.id) /\ ~Live(images, r.image.id)'
                \/ \E k \in DOMAIN r.configuration :
                      /\ Live(configurations, r.configuration[k].id)
                      /\ ~Live(configurations, r.configuration[k].id)'
              noneDeleted ==
                /\ Live(images, r.image.id)
                /\ \A k \in DOMAIN r.configuration :
                      Live(configurations, r.configuration[k].id)
          IN  /\ deletedNow => deposed(r)'
              /\ noneDeleted' => valid(r)']_vars

\* The latest Release of the application holds this Configuration row.
LatestContains(c) ==
    /\ latest_release(c.application_id) # {}
    /\ LET snapshot == First(latest_release(c.application_id)).configuration
       IN  c.name \in DOMAIN snapshot /\ snapshot[c.name].id = Str(c.id)

ConfigurationDiff(app) == ready_for_deployment(app).configuration_diff

\* C6: right after the value of a Configuration held by the latest Release is
\* updated, ready_for_deployment lists its name as changed.
C6_ValueUpdateReportedChanged ==
    [][\A c \in configurations : \A d \in configurations' :
          (d.id = c.id /\ d.value # c.value /\ LatestContains(c))
             => c.name \in ConfigurationDiff(c.application_id).changed']_vars

\* C7: right after a Configuration is created whose name the latest Release
\* does not hold, ready_for_deployment lists the name as added; right after a
\* Configuration held by the latest Release is deleted (removed, or flagged
\* deleted), it lists the name as removed.
C7_CreatedAddedDeletedRemoved ==
    [][/\ \A d \in configurations' :
             (/\ d.id \notin {c.id : c \in configurations}
              /\ latest_release(d.application_id) # {}
              /\ d.name \notin DOMAIN First(latest_release(d.application_id)).configuration)
                => d.name \in ConfigurationDiff(d.application_id).added'
       /\ \A c \in configurations :
             (/\ LatestContains(c)
              /\ Live(configurations, Str(c.id))
              /\ ~Live(configurations, Str(c.id))')
                => c.name \in ConfigurationDiff(c.application_id).removed']_vars

\* C8: when the candidate and the current Release hold the same configuration
\* names and each pair of entries agrees on everything but id and version_id
\* (that is, on name and secret), the configuration diff has nothing added,
\* removed or changed.
C8_IdentityChurnIsNoChange ==
    \A app \in Apps :
        LET candidate == release_candidate(app).configuration
            current == Get(current_release(app), "configuration", EmptyMapping)
            diff == ConfigurationDiff(app)
        IN  (/\ DOMAIN candidate = DOMAIN current
             /\ \A n \in DOMAIN candidate :
                   /\ candidate[n].name = current[n].name
                   /\ candidate[n].secret = current[n].secret)
               => diff.added = {} /\ diff.removed = {} /\ diff.changed = {}

C8_Witness ==
    \E app \in Apps :
        LET candidate == release_candidate(app).configuration
            current == Get(current_release(app), "configuration", EmptyMapping)
        IN  /\ latest_release(app) # {}
            /\ DOMAIN candidate = DOMAIN current
            /\ \A n \in DOMAIN candidate :
                  /\ candidate[n].name = current[n].name
                  /\ candidate[n].secret = current[n].secret
            /\ \E n \in DOMAIN candidate : candidate[n].version_id # current[n].version_id
            /\ \E n \in DOMAIN candidate : candidate[n].id # current[n].id

\* C9: a new Release gets version 1 when its Application has no Release, and
\* otherwise the highest version among that Application's Releases plus 1,
\* whatever its Images are; so Releases inserted one after another, none
\* removed, carry the versions 1..N.
C9_ReleaseVersions ==
    /\ [](\A app \in Apps :
            NoReleaseRemoved(app) =>
               {r.version : r \in ReleasesOf(app)} = 1 .. Cardinality(ReleasesOf(app)))
    /\ [][\A app \in Apps : \A r \in ReleasesOf(app)' \ ReleasesOf(app) :
             r.version = IF ReleasesOf(app) = {} THEN 1
                         ELSE Max({x.version : x \in ReleasesOf(app)}) + 1]_vars

C9_Witness ==
    \E app \in Apps :
        /\ NoReleaseRemoved(app)
        /\ Cardinality(ReleasesOf(app)) = 2
        /\ Cardinality(ImagesOf(app)) # 2
        /\ \E other \in Apps \ {app} : ImagesOf(other) # {}

Count(seq, e) == Cardinality({n \in 1 .. Len(seq) : seq[n] = e})

\* C10: deposed_reason holds one entry, naming the id, for the Image when it
\* does not resolve and one for each Configuration of the snapshot that does not
\* resolve, and nothing else; so it is empty exactly when the Release is valid.
C10_ReasonPerMissingReference ==
    \A r \in releases :
        LET reasons == deposed_reason(r)
            imageMissing == ~Resolves(images, r.image.id)
            missing == {k \in DOMAIN r.configuration :
                           ~Resolves(configurations, r.configuration[k].id)}
        IN  /\ Count(reasons, [kind |-> "Image", id |-> r.image.id, name |-> ""])
                  = IF imageMissing THEN 1 ELSE 0
            /\ \A k \in DOMAIN r.configuration :
                  Count(reasons, [kind |-> "Configuration",
                                  id |-> r.configuration[k].id, name |-> k])
                     = IF k \in missing THEN 1 ELSE 0
            /\ Len(reasons) = (IF imageMissing THEN 1 ELSE 0) + Cardinality(missing)
            /\ (reasons = <<>>) <=> valid(r)

C10_Witness ==
    \E r \in releases :
        /\ ~Resolves(images, r.image.id)
        /\ \E k \in DOMAIN r.configuration :
              ~Resolves(configurations, r.configuration[k].id)
        /\ \E k \in DOMAIN r.configuration :
              Resolves(configurations, r.configuration[k].id)
        /\ Len(deposed_reason(r)) = 2

\* C11: create_release snapshots rows that exist at that moment (the latest
\* built Image of the Application, and for every name the Configuration row of
\* that name), and afterwards, whenever the rows of the snapshot are still
\* there, image_object and configuration_objects resolve the embedded ids back
\* to those very rows: the Image of that id, tag and Application, and for
\* every name the Configuration of that id and name.
C11_SnapshotRoundTrip ==
    /\ [][\A r \in releases' \ releases :
             /\ \E i \in latest_image(r.application_id) :
                   /\ r.image = Image_asdict(i)
                   /\ image_object(r)' = i
             /\ DOMAIN r.configuration = {c.name : c \in ConfigurationsOf(r.application_id)}
             /\ \A k \in DOMAIN r.configuration :
                   \E c \in ConfigurationsOf(r.application_id) :
                      /\ c.name = k
                      /\ r.configuration[k] = Configuration_asdict(c)
                      /\ configuration_objects(r)'[k] = c]_vars
    /\ [](\A r \in releases :
            /\ Resolves(images, r.image.id) =>
                  /\ Str(image_object(r).id) = r.image.id
                  /\ Str(image_object(r).version) = r.image.tag
                  /\ image_object(r).application_id = r.application_id
                  /\ image_object(r).built
            /\ \A k \in DOMAIN r.configuration :
                  Resolves(configurations, r.configuration[k].id) =>
                     /\ Str(configuration_objects(r)[k].id) = r.configuration[k].id
                     /\ configuration_objects(r)[k].name = k
                     /\ configuration_objects(r)[k].application_id = r.application_id)

\* A Release whose rows are all still there while its Application has a newer
\* built Image.
C11_Witness ==
    \E r \in releases :
        /\ valid(r)
        /\ DOMAIN r.configuration # {}
        /\ latest_image(r.application_id) # {}
        /\ image_object(r) \notin latest_image(r.application_id)

\* C12: when an Application has no Release, the Release that create_release
\* makes and the session saves stores a configuration diff whose added
\* partition is the set of names of the Application's Configurations and
\* whose removed and changed partitions are empty.
C12_FirstReleaseAddsEveryName ==
    [][\A r \in releases' \ releases :
          ReleasesOf(r.application_id) = {} =>
             /\ r.configuration_changes.added
                   = {c.name : c \in ConfigurationsOf(r.application_id)}
             /\ r.configuration_changes.removed = {}
             /\ r.configuration_changes.changed = {}]_vars

C12_Witness ==
    \E r \in releases :
        /\ r.version = 1
        /\ Cardinality(r.configuration_changes.added) = 2
        /\ \E other \in releases :
              other.application_id # r.application_id /\ other.configuration_changes.added = {}

\* C13: a Configuration is never added to an Application that already has a
\* row whose name is the same up to letter case (such a create is refused and
\* leaves the table as it was); so no two Configurations of one Application
\* ever have names that are equal ignoring case.
C13_NoCaseInsensitiveDuplicate ==
    /\ [][\A d \in configurations' \ configurations :
             (\A c \in configurations : c.id # d.id) =>
                \A c \in ConfigurationsOf(d.application_id) :
                   Lower(c.name) # Lower(d.name)]_vars
    /\ [](\A c, d \in configurations :
             (c.id # d.id /\ c.application_id = d.application_id)
                => Lower(c.name) # Lower(d.name))

\* Both Applications hold a name in different case, and one holds two names.
C13_Witness ==
    /\ \E c, d \in configurations :
          /\ c.application_id # d.application_id
          /\ c.name # d.name /\ Lower(c.name) = Lower(d.name)
          /\ UniqueConstraintViolated(c.application_id, d.name)
          /\ ~UniqueConstraintViolated_text(c.application_id, d.name)
    /\ nextConfigurationId > MaxConfigurations

StartsWith(text, prefix) ==
    Len(prefix) <= Len(text) /\ SubSeq(text, 1, Len(prefix)) = prefix

Contains(text, part) ==
    \E n \in 1 .. (Len(text) - Len(part) + 1) : SubSeq(text, n, n + Len(part) - 1) = part

\* C15: for a Configuration whose key_slug is a text, envconsul_statement
\* fails when the text has no colon, and otherwise emits a block that opens
\* with 'secret' when the secret flag is set and with 'prefix' when it is
\* not, and whose path is what follows the first colon of key_slug; for
\* key_slug "app:db/password" the block is the one of spec section 8.
C15_DirectiveAndPath ==
    \A c \in configurations :
        ~c.key_slug.null =>
            LET slug == c.key_slug.text
                out == envconsul_statement(c)
            IN  /\ (\A n \in 1 .. Len(slug) : SubSeq(slug, n, n) # ":")
                      => (out.error # "" /\ out.text = "")
                /\ \A n \in 1 .. Len(slug) :
                      (/\ SubSeq(slug, n, n) = ":"
                       /\ \A m \in 1 .. (n - 1) : SubSeq(slug, m, m) # ":")
                         => /\ out.error = ""
                            /\ StartsWith(out.text, IF c.secret THEN "secret {" ELSE "prefix {")
                            /\ Contains(out.text,
                                  "path = \"" \o SubSeq(slug, n + 1, Len(slug)) \o "\"\n")
                            /\ Len(out.text) = Len("secret {\n  no_prefix = true\n  path = \"\"\n}")
                                                  + Len(slug) - n
                /\ slug = "app:db/password" =>
                      out.text = (IF c.secret THEN "secret" ELSE "prefix")
                                    \o " {\n  no_prefix = true\n  path = \"db/password\"\n}"

C15_Witness ==
    \E c, d \in configurations :
        /\ c.secret /\ c.key_slug = Text("a:b:c")
        /\ envconsul_statement(c).error = ""
        /\ ~d.secret /\ d.key_slug = Text("db/password")
        /\ envconsul_statement(d).error # ""

Occurrences(text, part) ==
    Cardinality({n \in 1 .. (Len(text) - Len(part) + 1) :
                    SubSeq(text, n, n + Len(part) - 1) = part})

\* The snapshotted Configurations of a Release that still resolve.
Resolving(r) ==
    {k \in DOMAIN r.configuration : Resolves(configurations, r.configuration[k].id)}

WellFormed(r) ==
    \A k \in Resolving(r) : envconsul_statement(configuration_objects(r)[k]).error = ""

\* What C14 says of one Release: the rendering raises nothing and yields one
\* block per process of the snapshotted Image, each made of the exec stanza of
\* the process and the directive of every resolving Configuration and of no
\* other.
BlockPerProcess(r) ==
    LET out == envconsul_configurations(r)
    IN  /\ out.error = ""
        /\ DOMAIN out.blocks = DOMAIN r.image.processes
        /\ \A p \in DOMAIN out.blocks :
              /\ StartsWith(out.blocks[p],
                    "exec {\n  command = \"" \o r.image.processes[p].cmd \o "\"\n")
              /\ \A k \in Resolving(r) :
                    Contains(out.blocks[p],
                             envconsul_statement(configuration_objects(r)[k]).text)
              /\ Occurrences(out.blocks[p], "no_prefix = true") = Cardinality(Resolving(r))

\* C14: for every Release whose resolving Configurations have a well-formed
\* key path, envconsul_configurations returns one block per process, each
\* holding the directive of exactly the snapshotted Configurations that still
\* resolve; one that no longer resolves is skipped and nothing is raised.
C14_BlockPerProcessSkippingMissing ==
    \A r \in releases : WellFormed(r) => BlockPerProcess(r)

\* C16: when no Image of an Application has built = True (it has no Image, or
\* only Images still building or failed), the image snapshot of its
\* release_candidate is the empty mapping.
C16_NoBuiltImageEmptySnapshot ==
    \A app \in Apps :
        (\A i \in ImagesOf(app) : ~i.built) => release_candidate(app).image = EmptyMapping

C16_Witness ==
    \E app \in Apps :
        /\ \A i \in ImagesOf(app) : ~i.built
        /\ \E i \in ImagesOf(app) : i.error
        /\ \E i \in ImagesOf(app) : ~i.error
        /\ release_candidate(app).image = EmptyMapping
        /\ \E other \in Apps : release_candidate(other).image # EmptyMapping

\* The built Images of an Application that no built Image of it outranks.
HighestBuilt(app) ==
    {i \in ImagesOf(app) : i.built /\ \A j \in ImagesOf(app) : j.built => j.version <= i.version}

\* C17: the image snapshot of release_candidate, and of the Release that
\* create_release makes, is that of the built Image of highest version; an
\* Image that is building or failed is not snapshotted, whatever its version.
C17_SnapshotIsHighestBuilt ==
    /\ [](\A app \in Apps :
            HighestBuilt(app) # {} =>
               \E i \in HighestBuilt(app) :
                  /\ release_candidate(app).image.id = Str(i.id)
                  /\ release_candidate(app).image.tag = Str(i.version)
                  /\ release_candidate(app).image.repository = i.repository_name
                  /\ release_candidate(app).image.processes = i.processes)
    /\ [][\A r \in releases' \ releases :
             \E i \in HighestBuilt(r.application_id) :
                /\ r.image.id = Str(i.id)
                /\ r.image.tag = Str(i.version)
                /\ r.image.processes = i.processes]_vars

\* A Release made from the built Image while a failed and a building Image of
\* the Application have higher versions.
C17_Witness ==
    \E r \in releases : \E i, j, k \in ImagesOf(r.application_id) :
        /\ i.built /\ r.image.id = Str(i.id)
        /\ j.error /\ j.version > i.version
        /\ ~k.built /\ ~k.error /\ k.version > j.version
        /\ release_candidate(r.application_id).image.id = Str(i.id)

\* C18: a step that inserts an Image or a Release of one Application leaves
\* every Image and Release row of every other Application as it was, and
\* leaves unchanged the version the listeners would give to the next Image
\* and the next Release of the other Application; that version is always
\* 1 + the highest version among the other Application's own rows (1 when it
\* has none), whatever the writers of the two Applications interleave.
C18_OtherApplicationUntouched ==
    /\ [][\A a \in Apps :
             (\/ \E i \in ImagesOf(a)' : \A o \in ImagesOf(a) : o.id # i.id
              \/ \E r \in ReleasesOf(a)' : \A o \in ReleasesOf(a) : o.id # r.id)
                => \A b \in Apps \ {a} :
                      /\ ImagesOf(b)' = ImagesOf(b)
                      /\ ReleasesOf(b)' = ReleasesOf(b)
                      /\ image_before_insert_listener(b)' = image_before_insert_listener(b)
                      /\ release_before_insert_listener(b)' = release_before_insert_listener(b)]_vars
    /\ [](\A b \in Apps :
             /\ image_before_insert_listener(b)
                   = IF ImagesOf(b) = {} THEN 1
                     ELSE 1 + Max({i.version : i \in ImagesOf(b)})
             /\ release_before_insert_listener(b)
                   = IF ReleasesOf(b) = {} THEN 1
                     ELSE 1 + Max({r.version : r \in ReleasesOf(b)}))

\* Both Applications have Images and a Release, one of them more Images than
\* the other, and a writer is about to insert into one of them.
C18_Witness ==
    \E a, b \in Apps :
        /\ a # b
        /\ Cardinality(ImagesOf(a)) = 2 /\ Cardinality(ImagesOf(b)) = 1
        /\ ReleasesOf(a) # {} /\ ReleasesOf(b) # {}
        /\ image_before_insert_listener(a) # image_before_insert_listener(b)

AllEmpty(diff) == diff.added = {} /\ diff.removed = {} /\ diff.changed = {}

\* ready_for_deployment reports nothing to deploy.
NothingToDeploy(app) ==
    /\ AllEmpty(ready_for_deployment(app).image_diff)
    /\ AllEmpty(ready_for_deployment(app).configuration_diff)

\* The Release of the Application that was saved last (ids are handed out in
\* the order of the INSERTs).
LastSaved(app) == CHOOSE r \in ReleasesOf(app) : \A o \in ReleasesOf(app) : o.id <= r.id

\* No Image or Configuration of the Application was created, built, updated or
\* deleted since the Release was made: the rows a snapshot would hold now are
\* those the Release holds, id and version stamp included.
SnapshotStillCurrent(app, r) ==
    /\ latest_image(app) # {}
    /\ r.image = Image_asdict(First(latest_image(app)))
    /\ r.configuration = ConfigurationSnapshot(app)

\* C19: as long as the Images and Configurations of an Application are what
\* they were when its last Release was made by create_release and saved,
\* ready_for_deployment has nothing added, removed or changed in either
\* diff, whatever the built, error and deleted flags of that Release are.
C19_NothingToDeployAfterRelease ==
    \A app \in Apps :
        (ReleasesOf(app) # {} /\ SnapshotStillCurrent(app, LastSaved(app)))
            => NothingToDeploy(app)

\* The latest of two Releases is flagged failed and deleted, and nothing is
\* to deploy.
C19_Witness ==
    \E app \in Apps : \E r \in latest_release(app) :
        /\ r.version = 2 /\ r.error /\ r.deleted
        /\ DOMAIN r.configuration # {}
        /\ \E o \in ReleasesOf(app) : o.version = 1 /\ o.configuration # r.configuration
        /\ r = LastSaved(app) /\ SnapshotStillCurrent(app, r)
        /\ NothingToDeploy(app)

\* C20: a Release is stored with the platform its Application has when it is
\* made; a step that changes the platform of an Application leaves every
\* Release, Image and Configuration row as it was; and the two diffs of
\* ready_for_deployment are those of the image and configuration fields
\* alone, so that the platform of the Application or of its latest Release
\* puts nothing in added, removed or changed.
C20_PlatformKeptAndNotCompared ==
    /\ [][/\ \A r \in releases' \ releases :
                (\A o \in releases : o.id # r.id)
                   => r.platform = applications[r.application_id].platform
          /\ (\E app \in Apps : applications'[app].platform # applications[app].platform)
                => (releases' = releases /\ images' = images
                    /\ configurations' = configurations)]_vars
    /\ [](\A app \in Apps :
            LET stored == IF latest_release(app) = {}
                          THEN [image |-> EmptyMapping, configuration |-> EmptyMapping]
                          ELSE First(latest_release(app))
                image == IF latest_image(app) = {} THEN EmptyMapping
                         ELSE Image_asdict(First(latest_image(app)))
            IN  /\ ready_for_deployment(app).configuration_diff
                      = DictDiffer(ConfigurationSnapshot(app), stored.configuration,
                                   {"id", "version_id"}, TRUE)
                /\ ready_for_deployment(app).image_diff
                      = DictDiffer(image, stored.image, {"id", "version_id"}, FALSE))

\* An Application whose platform was changed between its two Releases and
\* which has nothing to deploy.
C20_Witness ==
    \E app \in Apps : \E r1, r2 \in ReleasesOf(app) :
        /\ r1.platform = "wind" /\ r2.platform = "steam"
        /\ applications[app].platform = "steam"
        /\ r2 \in latest_release(app)
        /\ NothingToDeploy(app)

====
